---- MODULE Spec2Model ----
(***************************************************************************)
(* A model of the MEET sushi chef (src/chef.py): the retrying HTTP GET     *)
(* (make_request), the title truncation (truncate_metadata), the module    *)
(* page handler (fetch_module), the page archiver (download_content_node)  *)
(* and the four-level site walker (fetch_all_languages .. fetch_article).  *)
(* Each part has its own specification over its own group of variables;    *)
(* the variables of the other parts stay at their idle values.             *)
(***************************************************************************)
EXTENDS Integers, Sequences, FiniteSets, TLC

VARIABLES
    \* ---- make_request and the loop that calls it
    rq_pc,          \* "idle" | "get" | "sleep" | "returned" | "raised"
    retry_count,    \* make_request's local retry_count
    rq_log,         \* what the current make_request call did: GET attempts and sleeps
    response,       \* the value make_request returned (None before)
    rq_exc,         \* the exception that left make_request ("" when none)
    sib,            \* index of the sibling item the calling loop is at
    parsed,         \* the documents parsed for the siblings already done
    \* ---- truncate_metadata
    tr_pc,          \* "start" | "done"
    data_string,    \* the article title handed to download_content_node
    node_title,     \* the title of the HTML5AppNode built from it
    \* ---- fetch_module
    fm_pc,          \* "start" | "fetched" | "posted" | "loop" | "returned" | "raised"
    fm_doc,         \* fetch_module's local doc (None before the first fetch)
    fm_net,         \* the requests fetch_module issued, in order
    fm_si,          \* position of the section loop in doc.select(...)
    fm_children,    \* module_node.children
    fm_exc,         \* the exception that left fetch_module ("" when none)
    \* ---- download_content_node, run twice on the same article
    ar_pc,          \* "start" | "fetched" | "removing" | "written" | "returned" | "raised"
    ar_run,         \* which run of download_content_node this is (1 or 2)
    ar_page,        \* the article page the server holds (the same for both runs)
    ar_doc,         \* the local doc: the parsed page, its references rewritten
    ar_removed,     \* the nodes of doc decomposed so far
    ar_sel,         \* position of the loop over nodes_to_remove
    ar_files,       \* the files in the work directory `destination`
    ar_zip,         \* the archive create_predictable_zip made in this run
    ar_zip1,        \* the archive of the first run
    \* ---- the site walker
    cr_pc,          \* "start" | "running" | "done" | "raised"
    cr_stack,       \* the fetch_* calls in progress, innermost last
    cr_nodes,       \* the nodes created so far; node 1 is the channel
    cr_children,    \* cr_children[n]: the children list of node n
    cr_labels,      \* the category labels found on the root page
    cr_exc          \* the exception that ended the crawl ("" when none)

\* Python's None, where the other values of the variable are records.
None == [none |-> TRUE]

reqVars   == <<rq_pc, retry_count, rq_log, response, rq_exc, sib, parsed>>
truncVars == <<tr_pc, data_string, node_title>>
modVars   == <<fm_pc, fm_doc, fm_net, fm_si, fm_children, fm_exc>>
arcVars   == <<ar_pc, ar_run, ar_page, ar_doc, ar_removed, ar_sel, ar_files,
               ar_zip, ar_zip1>>
crawlVars == <<cr_pc, cr_stack, cr_nodes, cr_children, cr_labels, cr_exc>>
vars      == <<reqVars, truncVars, modVars, arcVars, crawlVars>>

\* The variables of the other parts, which a part's actions leave alone.
notReq    == <<truncVars, modVars, arcVars, crawlVars>>
notTrunc  == <<reqVars, modVars, arcVars, crawlVars>>
notMod    == <<reqVars, truncVars, arcVars, crawlVars>>
notArc    == <<reqVars, truncVars, modVars, crawlVars>>
notCrawl  == <<reqVars, truncVars, modVars, arcVars>>

ReqIdle   == /\ rq_pc = "off" /\ retry_count = 0 /\ rq_log = <<>> /\ response = None
             /\ rq_exc = "" /\ sib = 0 /\ parsed = <<>>
TruncIdle == /\ tr_pc = "off" /\ data_string = <<>> /\ node_title = <<>>
ModIdle   == /\ fm_pc = "off" /\ fm_doc = None /\ fm_net = <<>> /\ fm_si = 0
             /\ fm_children = <<>> /\ fm_exc = ""

NoZip     == [files |-> {}]
ArcIdle   == /\ ar_pc = "off" /\ ar_run = 0 /\ ar_page = <<>> /\ ar_doc = <<>>
             /\ ar_removed = {} /\ ar_sel = 0 /\ ar_files = {}
             /\ ar_zip = NoZip /\ ar_zip1 = NoZip

CrawlIdle == /\ cr_pc = "off" /\ cr_stack = <<>> /\ cr_nodes = <<>>
             /\ cr_children = <<>> /\ cr_labels = <<>> /\ cr_exc = ""

ReqOthersIdle   == TruncIdle /\ ModIdle /\ ArcIdle /\ CrawlIdle
TruncOthersIdle == ReqIdle /\ ModIdle /\ ArcIdle /\ CrawlIdle
ModOthersIdle   == ReqIdle /\ TruncIdle /\ ArcIdle /\ CrawlIdle
ArcOthersIdle   == ReqIdle /\ TruncIdle /\ ModIdle /\ CrawlIdle
CrawlOthersIdle == ReqIdle /\ TruncIdle /\ ModIdle /\ ArcIdle

(***************************************************************************)
(* make_request (chef.py 262-280) and get_parsed_html_from_url (283-285),  *)
(* called once per sibling item by a walker loop (fetch_unit, 172-176).    *)
(***************************************************************************)

\* The number of sibling items the calling loop walks over.
NumSiblings == 3

max_retries == 5

\* The names bound in chef.py's module namespace: its imports and its
\* top-level definitions.  A name that is not here raises NameError when
\* the statement that uses it is executed.
ModuleGlobals ==
    {"os", "re", "requests", "tempfile", "time", "urlparse", "parse_qs", "uuid",
     "BeautifulSoup", "languages", "SushiChef", "nodes", "files", "licenses",
     "CacheForeverHeuristic", "FileCache", "CacheControlAdapter",
     "InvalidatingCacheControlAdapter", "preview_in_browser", "download_file",
     "WebDriver", "create_predictable_zip", "download_static_assets",
     "selenium_ui", "secrets", "sess", "cache", "forever_adapter", "headers",
     "MEET_LICENSE", "MeetChef", "login_to_meet", "fetch_all_languages",
     "fetch_language", "fetch_module", "fetch_unit", "fetch_article",
     "derive_filename", "download_content_node", "truncate_metadata",
     "url_blacklist", "make_request", "get_parsed_html_from_url"}

\* The exceptions the except clause of make_request catches.
RetriedExceptions == {"ConnectionError", "ReadTimeout"}

\* Exceptions of sess.get that the except clause does not name.
OtherExceptions == {"TooManyRedirects"}

\* What the server can answer to one GET: a status code and a body.
Responses == {[status_code |-> 200, content |-> "page"],
              [status_code |-> 404, content |-> "errorpage"]}

\* Dummy404ResponseObject(url=url): a not-found response with an empty body.
Dummy404ResponseObject == [status_code |-> 404, content |-> ""]

\* time.sleep(retry_count * 1)
SleepSecondsConst(rc) == 1
SleepSeconds(rc) == rc * 1

GetEvent      == [ev |-> "get", secs |-> 0]
SleepEvent(s) == [ev |-> "sleep", secs |-> s]

\* The calling loop reaches the next item and calls
\* get_parsed_html_from_url -> make_request: retry_count = 0, while True.
CallMakeRequest ==
    /\ rq_pc = "idle"
    /\ sib <= NumSiblings
    /\ rq_pc' = "get"
    /\ retry_count' = 0
    /\ rq_log' = <<>>
    /\ response' = None
    /\ UNCHANGED <<rq_exc, sib, parsed, notReq>>

\* sess.get returns: break out of the loop, print when the status is not
\* 200, return the response.
GetReturns ==
    /\ rq_pc = "get"
    /\ \E r \in Responses : response' = r
    /\ rq_log' = Append(rq_log, GetEvent)
    /\ rq_pc' = "returned"
    /\ UNCHANGED <<retry_count, rq_exc, sib, parsed, notReq>>

\* sess.get raises ConnectionError or ReadTimeout: retry_count += 1 and the
\* handler goes on to its sleep.
GetFails ==
    /\ rq_pc = "get"
    /\ \E e \in RetriedExceptions : TRUE
    /\ rq_log' = Append(rq_log, GetEvent)
    /\ retry_count' = retry_count + 1
    /\ rq_pc' = "sleep"
    /\ UNCHANGED <<response, rq_exc, sib, parsed, notReq>>

\* sess.get raises something the except clause does not catch: it leaves
\* make_request.
GetRaisesOther ==
    /\ rq_pc = "get"
    /\ \E e \in OtherExceptions : rq_exc' = e
    /\ rq_log' = Append(rq_log, GetEvent)
    /\ rq_pc' = "raised"
    /\ UNCHANGED <<retry_count, response, sib, parsed, notReq>>

\* The rest of the except block: time.sleep(retry_count * 1), then
\* `if retry_count >= max_retries: return Dummy404ResponseObject(url=url)`.
\* The name Dummy404ResponseObject is looked up when that return runs.
SleepThenCheck ==
    /\ rq_pc = "sleep"
    /\ rq_log' = Append(rq_log, SleepEvent(SleepSeconds(retry_count)))
    /\ IF retry_count >= max_retries
       THEN IF "Dummy404ResponseObject" \in ModuleGlobals
            THEN /\ response' = Dummy404ResponseObject
                 /\ rq_pc' = "returned"
                 /\ rq_exc' = rq_exc
            ELSE /\ rq_exc' = "NameError"
                 /\ rq_pc' = "raised"
                 /\ response' = response
       ELSE /\ rq_pc' = "get"
            /\ UNCHANGED <<response, rq_exc>>
    /\ UNCHANGED <<retry_count, sib, parsed, notReq>>

\* get_parsed_html_from_url parses the returned body and the calling loop
\* moves on to the next sibling.
ParseAndContinue ==
    /\ rq_pc = "returned"
    /\ parsed' = Append(parsed, response.content)
    /\ sib' = sib + 1
    /\ rq_pc' = "idle"
    /\ UNCHANGED <<retry_count, rq_log, response, rq_exc, notReq>>

\* An exception that leaves make_request is caught nowhere: it leaves
\* get_parsed_html_from_url, the loop and construct_channel.  No action
\* is enabled with rq_pc = "raised".

InitReq ==
    /\ rq_pc = "idle" /\ retry_count = 0 /\ rq_log = <<>> /\ response = None
    /\ rq_exc = "" /\ sib = 1 /\ parsed = <<>>
    /\ ReqOthersIdle

NextReq ==
    \/ CallMakeRequest
    \/ GetReturns
    \/ GetFails
    \/ GetRaisesOther
    \/ SleepThenCheck
    \/ ParseAndContinue

SpecReq == InitReq /\ [][NextReq]_vars

\* ---- properties of make_request

Gets   == {i \in 1..Len(rq_log) : rq_log[i].ev = "get"}
Sleeps == {i \in 1..Len(rq_log) : rq_log[i].ev = "sleep"}
CallOver == rq_pc \in {"returned", "raised"}

\* C1: when all 5 GET attempts of a call failed with a connection error or
\* a read timeout, make_request returns the not-found sentinel with an
\* empty body and nothing is raised (so the loop goes on to the next item).
C1_ExhaustedReturnsSentinel ==
    (CallOver /\ retry_count >= max_retries) =>
        /\ rq_pc = "returned"
        /\ response = Dummy404ResponseObject
        /\ rq_exc = ""

\* C5 as stated: at most 5 attempts, the k-th sleep lasts k seconds, and at
\* the end of the call every sleep lies between two attempts.
C5_EverySleepBetweenAttempts ==
    /\ Cardinality(Gets) <= max_retries
    /\ \A i \in Sleeps : rq_log[i].secs = Cardinality({j \in Sleeps : j <= i})
    /\ CallOver => \A i \in Sleeps : (i - 1) \in Gets /\ (i + 1) \in Gets

\* C5 amended: at most 5 GET attempts; attempts and sleeps alternate,
\* starting with an attempt; the k-th sleep lasts k seconds and follows the
\* k-th failed attempt; the sleeps 1..4 are followed by another attempt and
\* the 5th sleep by none; a call that returned a response made its last
\* attempt last, with no sleep after it.
C5_BackoffSchedule ==
    /\ Cardinality(Gets) <= max_retries
    /\ \A i \in 1..Len(rq_log) : rq_log[i].ev = (IF i % 2 = 1 THEN "get" ELSE "sleep")
    /\ \A i \in Sleeps : rq_log[i].secs = i \div 2
    /\ Cardinality(Sleeps) <= max_retries
    /\ CallOver =>
          \A i \in Sleeps : IF rq_log[i].secs < max_retries
                            THEN (i + 1) \in Gets
                            ELSE i = Len(rq_log)
    /\ (rq_pc = "returned") => /\ rq_log[Len(rq_log)].ev = "get"
                               /\ Cardinality(Sleeps) = Cardinality(Gets) - 1

\* C5 witness: a call that slept 1, 2, 3, 4 and 5 seconds and is over.
C5_Witness ==
    /\ CallOver
    /\ {rq_log[i].secs : i \in Sleeps} = 1..max_retries

(***************************************************************************)
(* truncate_metadata (chef.py 246-250) and the node title (237-243).       *)
(***************************************************************************)

\* The longest title tried.
MaxTitleLen == 196

MAX_CHARS == 190

\* A title of n characters: the characters cycle through an alphabet, so
\* that a cut in the wrong place shows.
Alphabet == <<"a", "b", "c", " ", ".">>
Title(n, k) == [i \in 1..n |-> Alphabet[((i + k) % Len(Alphabet)) + 1]]

Ellipsis == <<" ", ".", ".", ".">>

\* data_string[:190]
Prefix(s, n) == SubSeq(s, 1, IF Len(s) < n THEN Len(s) ELSE n)

truncate_metadata_ge(s) ==
    IF Len(s) >= MAX_CHARS THEN Prefix(s, 190) \o Ellipsis ELSE s

truncate_metadata(s) ==
    IF Len(s) > MAX_CHARS THEN Prefix(s, 190) \o Ellipsis ELSE s

\* download_content_node builds HTML5AppNode(title=truncate_metadata(title)).
MakeContentNode ==
    /\ tr_pc = "start"
    /\ node_title' = truncate_metadata(data_string)
    /\ tr_pc' = "done"
    /\ UNCHANGED <<data_string, notTrunc>>

InitTrunc ==
    /\ tr_pc = "start"
    /\ \E n \in 0..MaxTitleLen, k \in 0..1 : data_string = Title(n, k)
    /\ node_title = <<>>
    /\ TruncOthersIdle

NextTrunc == MakeContentNode

SpecTrunc == InitTrunc /\ [][NextTrunc]_vars

\* C9: a title of at most 190 characters is the node's title unchanged; a
\* longer one gives its first 190 characters followed by " ...", 194
\* characters in all.
C9_TitleTruncation ==
    (tr_pc = "done") =>
        IF Len(data_string) <= 190
        THEN node_title = data_string
        ELSE /\ Len(node_title) = 194
             /\ \A i \in 1..190 : node_title[i] = data_string[i]
             /\ <<node_title[191], node_title[192], node_title[193], node_title[194]>>
                    = <<" ", ".", ".", ".">>

\* C9 witness: a node built from a title longer than 190 characters.
C9_Witness == tr_pc = "done" /\ Len(data_string) > 190 /\ Len(node_title) = 194

(***************************************************************************)
(* fetch_module (chef.py 121-156): the module page, the enrolment and the  *)
(* loop over the page's sections.                                          *)
(***************************************************************************)

\* The most input elements in form#mform1 and the most sections on a page.
MaxInputs   == 2
MaxSections == 2

NoAttr == "NoAttr"

ENROL_URL == "http://migranthealth.eu/etraining/enrol/index.php"
OTHER_URL == "http://migranthealth.eu/etraining/login/index.php"

SeqsUpTo(S, n) == UNION {[1..k -> S] : k \in 0..n}

\* An input element of the form: its name attribute (or none) and whether
\* it has a value attribute.  The value of the i-th input is i, so the
\* values of two inputs always differ.
Inputs == [name : {"id", NoAttr}, has_value : BOOLEAN]
InputValue(i) == i

\* form#mform1 as select_one finds it: None, or its action attribute (which
\* may be missing) and its input elements in document order.
Forms == {None} \cup [action : {ENROL_URL, OTHER_URL, NoAttr},
                      inputs : SeqsUpTo(Inputs, MaxInputs)]

\* A '.course-content .topics .section.main' block:
\*   "unit"      has .section-title with a link, and .summarytext
\*   "untitled"  has no .section-title
\*   "nolink"    has .section-title without an <a>
\*   "nosummary" has .section-title with a link but no .summarytext
SectionKinds == {"unit", "untitled", "nolink", "nosummary"}

\* A parsed module page: what the selectors of fetch_module find in it.  A
\* page with no form and no sections is also what an error body parses to.
ModuleDocs == [form : Forms, sections : SeqsUpTo(SectionKinds, MaxSections)]

\* The page the server sends after the enrolment POST: it may still hold
\* the enrolment form (the enrolment did not take).
RefetchedDocs == {d \in ModuleDocs : d.form = None \/
                      (d.form.action = ENROL_URL /\ d.form.inputs = <<>>)}

GetRequest      == [method |-> "GET", url |-> "module", body |-> <<>>]
PostRequest(b)  == [method |-> "POST", url |-> ENROL_URL, body |-> b]

\* post_values after the loop of lines 139-141 over inputs[i..], started
\* with the dict acc: the dict (name -> value) it ends with, or the KeyError
\* that element['name'] raises for an input with a value attribute and no
\* name attribute.
RECURSIVE PostValues(_, _, _)
PostValues(inputs, i, acc) ==
    IF i > Len(inputs) THEN [exc |-> "", dict |-> acc]
    ELSE IF ~inputs[i].has_value THEN PostValues(inputs, i + 1, acc)
    ELSE IF inputs[i].name = NoAttr THEN [exc |-> "KeyError", dict |-> acc]
    ELSE PostValues(inputs, i + 1,
            [n \in (DOMAIN acc) \cup {inputs[i].name} |->
                IF n = inputs[i].name THEN InputValue(i) ELSE acc[n]])

EmptyDict == [n \in {} |-> 0]

\* `if not section_title: continue`: the loop goes on with the next section.
BreakAtUntitled(i, n) == n + 1
AfterUntitled(i, n) == i + 1

\* `form and form['action'] == '.../enrol/index.php'` (a Tag is truthy).
WantsEnrol(doc) ==
    IF doc.form = None THEN FALSE ELSE doc.form.action = ENROL_URL

\* form['action'] on a form without that attribute.
ActionMissing(doc) ==
    IF doc.form = None THEN FALSE ELSE doc.form.action = NoAttr

\* module_node is created, then doc = get_parsed_html_from_url(url).
FetchModulePage ==
    /\ fm_pc = "start"
    /\ fm_net' = Append(fm_net, GetRequest)
    /\ \/ \E d \in ModuleDocs : fm_doc' = d /\ fm_pc' = "fetched" /\ fm_exc' = fm_exc
       \/ fm_pc' = "raised" /\ fm_exc' = "NameError" /\ fm_doc' = fm_doc
    /\ UNCHANGED <<fm_si, fm_children, notMod>>

\* form is None, or its action is not the enrolment endpoint: no enrolment.
\* form['action'] of a form without an action attribute raises KeyError.
NoEnrolment ==
    /\ fm_pc = "fetched"
    /\ ~WantsEnrol(fm_doc)
    /\ IF ActionMissing(fm_doc)
       THEN fm_pc' = "raised" /\ fm_exc' = "KeyError" /\ fm_si' = fm_si
       ELSE fm_pc' = "loop" /\ fm_si' = 1 /\ fm_exc' = fm_exc
    /\ UNCHANGED <<fm_doc, fm_net, fm_children, notMod>>

\* The enrolment block, lines 137-143: post_values is built from the
\* inputs, POSTed to form['action'], then time.sleep(1).  sess.post is not
\* wrapped in a retry: its exception leaves fetch_module.
Enrol ==
    /\ fm_pc = "fetched"
    /\ WantsEnrol(fm_doc)
    /\ LET pv == PostValues(fm_doc.form.inputs, 1, EmptyDict) IN
         IF pv.exc # ""
         THEN fm_pc' = "raised" /\ fm_exc' = pv.exc /\ fm_net' = fm_net
         ELSE /\ fm_net' = Append(fm_net, PostRequest(pv.dict))
              /\ \/ fm_pc' = "posted" /\ fm_exc' = fm_exc
                 \/ fm_pc' = "raised" /\ fm_exc' = "ConnectionError"
    /\ UNCHANGED <<fm_doc, fm_si, fm_children, notMod>>

\* Line 144: doc = get_parsed_html_from_url(url) again; the loop below
\* runs on this document whatever it holds.
Refetch ==
    /\ fm_pc = "posted"
    /\ fm_net' = Append(fm_net, GetRequest)
    /\ \/ \E d \in RefetchedDocs : fm_doc' = d /\ fm_pc' = "loop" /\ fm_si' = 1
                                    /\ fm_exc' = fm_exc
       \/ fm_pc' = "raised" /\ fm_exc' = "NameError" /\ fm_doc' = fm_doc /\ fm_si' = fm_si
    /\ UNCHANGED <<fm_children, notMod>>

InLoop == fm_pc = "loop" /\ fm_si <= Len(fm_doc.sections)

\* A section without .section-title: continue.
SkipUntitled ==
    /\ InLoop
    /\ fm_doc.sections[fm_si] = "untitled"
    /\ fm_si' = AfterUntitled(fm_si, Len(fm_doc.sections))
    /\ UNCHANGED <<fm_pc, fm_doc, fm_net, fm_children, fm_exc, notMod>>

\* section_title.select_one('a') or section.select_one('.summarytext') is
\* None: the subscript raises TypeError, the .text AttributeError.
SectionLookupFails ==
    /\ InLoop
    /\ fm_doc.sections[fm_si] \in {"nolink", "nosummary"}
    /\ fm_exc' = (IF fm_doc.sections[fm_si] = "nolink" THEN "TypeError"
                  ELSE "AttributeError")
    /\ fm_pc' = "raised"
    /\ UNCHANGED <<fm_doc, fm_net, fm_si, fm_children, notMod>>

\* unit = fetch_unit(...); module_node.add_child(unit).  The unit node's
\* source_id is the section's link; section i links to unit i.
FetchUnitReturns ==
    /\ InLoop
    /\ fm_doc.sections[fm_si] = "unit"
    /\ fm_children' = Append(fm_children, [source_id |-> fm_si])
    /\ fm_si' = fm_si + 1
    /\ UNCHANGED <<fm_pc, fm_doc, fm_net, fm_exc, notMod>>

\* fetch_unit raises (a page fetch below it ran out of retries).
FetchUnitRaises ==
    /\ InLoop
    /\ fm_doc.sections[fm_si] = "unit"
    /\ fm_pc' = "raised"
    /\ fm_exc' = "NameError"
    /\ UNCHANGED <<fm_doc, fm_net, fm_si, fm_children, notMod>>

\* The loop is over: return module_node.
ReturnModule ==
    /\ fm_pc = "loop"
    /\ fm_si > Len(fm_doc.sections)
    /\ fm_pc' = "returned"
    /\ UNCHANGED <<fm_doc, fm_net, fm_si, fm_children, fm_exc, notMod>>

InitMod ==
    /\ fm_pc = "start" /\ fm_doc = None /\ fm_net = <<>> /\ fm_si = 0
    /\ fm_children = <<>> /\ fm_exc = ""
    /\ ModOthersIdle

NextMod ==
    \/ FetchModulePage
    \/ NoEnrolment
    \/ Enrol
    \/ Refetch
    \/ SkipUntitled
    \/ SectionLookupFails
    \/ FetchUnitReturns
    \/ FetchUnitRaises
    \/ ReturnModule

SpecMod == InitMod /\ [][NextMod]_vars

\* ---- properties of fetch_module

Posts == {i \in 1..Len(fm_net) : fm_net[i].method = "POST"}
GetsOfModule == {i \in 1..Len(fm_net) : fm_net[i].method = "GET"}

\* The first document is in hand and holds the enrolment form, and the
\* enrolment block has run.
EnrolmentDue ==
    /\ fm_pc \in {"posted", "raised"}
    /\ Cardinality(GetsOfModule) = 1
    /\ fm_doc # None
    /\ WantsEnrol(fm_doc)

\* C2: a module page whose form#mform1 has the enrolment endpoint as its
\* action gets exactly one enrolment POST, whose body holds every input of
\* the form that has a value attribute; the POST is followed by exactly
\* one GET of the module URL, and there is never a second POST.
C2_EnrolPostCarriesEveryValuedInput ==
    /\ Cardinality(Posts) <= 1
    /\ \A i \in Posts : i = 2 /\ Cardinality(GetsOfModule) <= 2
    /\ (fm_pc \in {"loop", "returned"} /\ Posts # {}) => Cardinality(GetsOfModule) = 2
    /\ EnrolmentDue =>
          /\ Cardinality(Posts) = 1
          /\ \A k \in 1..Len(fm_doc.form.inputs) :
                fm_doc.form.inputs[k].has_value =>
                    \E i \in Posts :
                        /\ fm_doc.form.inputs[k].name \in DOMAIN fm_net[i].body
                        /\ fm_net[i].body[fm_doc.form.inputs[k].name] = InputValue(k)

\* The sections of secs[i..] that have a title, by position.
RECURSIVE TitledFrom(_, _)
TitledFrom(secs, i) ==
    IF i > Len(secs) THEN <<>>
    ELSE (IF secs[i] = "untitled" THEN <<>> ELSE <<[source_id |-> i]>>)
            \o TitledFrom(secs, i + 1)

\* C6: the children of the module node that fetch_module returns are one
\* unit node per section with a .section-title, in document order; a
\* section without a title adds no child and does not end the enumeration.
C6_ChildrenAreTitledSections ==
    (fm_pc = "returned") => fm_children = TitledFrom(fm_doc.sections, 1)

\* C6 witness: a returned module whose page has an untitled section
\* before a titled one.
C6_Witness ==
    /\ fm_pc = "returned"
    /\ \E i, j \in 1..Len(fm_doc.sections) :
          i < j /\ fm_doc.sections[i] = "untitled" /\ fm_doc.sections[j] = "unit"
    /\ fm_children # <<>>

(***************************************************************************)
(* download_content_node (chef.py 201-243) and derive_filename (193-197).  *)
(* A document is a sequence of nodes in document order; a node is an       *)
(* element and the position of its parent (0 for a child of the document). *)
(***************************************************************************)

\* The most rows of a table, assets of a page and values of uuid4 tried.
MaxRows   == 4
MaxAssets == 2
NumTokens == 2

\* ---- elements and selectors

\* What the src/href attribute of an element refers to.
NoSrc       == [ref |-> "none"]
Remote(url) == [ref |-> "remote", url |-> url]
Local(file) == [ref |-> "local", file |-> file]
Dropped     == [ref |-> "dropped"]

El(tag, id, classes, alt) ==
    [tag |-> tag, id |-> id, classes |-> classes, alt |-> alt, src |-> NoSrc]
Node(parent, el) == [parent |-> parent, el |-> el]

\* A compound selector: tag, #id, .classes, [alt="..."], :nth-of-type(n);
\* "" and 0 stand for a part the selector does not have.
Sel(tag, id, classes, alt, nth) ==
    [tag |-> tag, id |-> id, classes |-> classes, alt |-> alt, nth |-> nth]

\* nodes_to_remove: each selector is its compound selectors, joined by the
\* descendant combinator.
nodes_to_remove == <<
    <<Sel("header", "", {}, "", 0)>>,
    <<Sel("", "page-top-header", {}, "", 0)>>,
    <<Sel("", "block-region-side-pre", {}, "", 0)>>,
    <<Sel("", "region-main", {}, "", 0), Sel("", "", {"row-fluid"}, "", 0),
      Sel("", "", {"span4", "heading-rts"}, "", 0)>>,
    <<Sel("", "", {"readmoreLinks"}, "", 0)>>,
    <<Sel("", "", {"courseSectionNext"}, "", 0)>>,
    <<Sel("img", "", {}, "next", 0)>>,
    <<Sel("", "", {"modified"}, "", 0)>>,
    <<Sel("", "", {"footer-rts"}, "", 0)>>,
    <<Sel("", "page-footer", {}, "", 0)>>,
    <<Sel("", "", {"back-to-top"}, "", 0)>>,
    <<Sel("", "", {"skiplinks"}, "", 0)>>,
    <<Sel("", "", {"linkicon"}, "", 0)>>,
    <<Sel("", "", {"generalbox"}, "", 0), Sel("table", "", {}, "", 0),
      Sel("tr", "", {}, "", 2)>> >>

RECURSIVE Ancestors(_, _)
Ancestors(doc, n) ==
    IF doc[n].parent = 0 THEN {}
    ELSE {doc[n].parent} \cup Ancestors(doc, doc[n].parent)

\* The node n and everything below it: what n.decompose() destroys.
Subtree(doc, n) == {m \in 1..Len(doc) : m = n \/ n \in Ancestors(doc, m)}

\* The position of n among the siblings of its tag that are in the tree.
TypeIndex(doc, live, n) ==
    Cardinality({m \in live : /\ doc[m].parent = doc[n].parent
                              /\ doc[m].el.tag = doc[n].el.tag
                              /\ m <= n})

MatchesCompound(doc, live, n, c) ==
    /\ c.tag = "" \/ doc[n].el.tag = c.tag
    /\ c.id = "" \/ doc[n].el.id = c.id
    /\ c.classes \subseteq doc[n].el.classes
    /\ c.alt = "" \/ doc[n].el.alt = c.alt
    /\ c.nth = 0 \/ TypeIndex(doc, live, n) = c.nth

RECURSIVE MatchesUpTo(_, _, _, _, _)
MatchesUpTo(doc, live, n, sel, k) ==
    /\ MatchesCompound(doc, live, n, sel[k])
    /\ k = 1 \/ \E a \in Ancestors(doc, n) : MatchesUpTo(doc, live, a, sel, k - 1)

Matches(doc, live, n, sel) == MatchesUpTo(doc, live, n, sel, Len(sel))

\* doc.select(selector): every node in the tree that matches.
SelectOne(doc, live, sel) ==
    LET all == {n \in live : Matches(doc, live, n, sel)} IN
    {n \in all : \A m \in all : n <= m}
Select(doc, live, sel) == {n \in live : Matches(doc, live, n, sel)}

Live(doc, removed) == (1..Len(doc)) \ removed

\* ---- the article pages tried

\* The element that selector k of nodes_to_remove is written for, with the
\* ancestors it needs (k = 0: none), as children of node 1 (body).
Chrome(k) ==
    CASE k = 0  -> <<>>
      [] k = 1  -> <<Node(1, El("header", "", {}, ""))>>
      [] k = 2  -> <<Node(1, El("div", "page-top-header", {}, ""))>>
      [] k = 3  -> <<Node(1, El("aside", "block-region-side-pre", {"block-region"}, ""))>>
      [] k = 4  -> <<Node(1, El("div", "region-main", {}, "")),
                     Node(2, El("div", "", {"row-fluid"}, "")),
                     Node(3, El("div", "", {"span4", "heading-rts"}, ""))>>
      [] k = 5  -> <<Node(1, El("a", "", {"readmoreLinks"}, ""))>>
      [] k = 6  -> <<Node(1, El("a", "", {"courseSectionNext"}, ""))>>
      [] k = 7  -> <<Node(1, El("img", "", {}, "next"))>>
      [] k = 8  -> <<Node(1, El("div", "", {"modified"}, ""))>>
      [] k = 9  -> <<Node(1, El("div", "", {"footer-rts"}, ""))>>
      [] k = 10 -> <<Node(1, El("footer", "page-footer", {}, ""))>>
      [] k = 11 -> <<Node(1, El("a", "", {"back-to-top"}, ""))>>
      [] k = 12 -> <<Node(1, El("div", "", {"skiplinks"}, ""))>>
      [] k = 13 -> <<Node(1, El("img", "", {"linkicon"}, ""))>>

\* A content box (class generalbox when inBox) under body at position b,
\* holding a table of r rows; with rowMod the first row has class
\* "modified".
Box(b, r, inBox, rowMod) ==
    <<Node(1, El("div", "", IF inBox THEN {"box", "generalbox"} ELSE {"box"}, "")),
      Node(b, El("table", "", {}, ""))>>
    \o [i \in 1..r |-> Node(b + 1, El("tr", "",
                            IF rowMod /\ i = 1 THEN {"modified"} ELSE {}, ""))]

\* An element that refers to the static asset url.
AssetNode(url) == Node(1, [El("img", "", {}, "") EXCEPT !.src = Remote(url)])

\* body, the chrome element k, nt content boxes with a table of r rows
\* each, and one element per asset.
BuildDoc(k, r, inBox, rowMod, nt, assets) ==
    LET head == <<Node(0, El("body", "", {}, ""))>> \o Chrome(k)
        b1   == Len(head) + 1
        one  == head \o Box(b1, r, inBox, rowMod)
        two  == IF nt = 2 THEN one \o Box(Len(one) + 1, r, inBox, rowMod) ELSE one
    IN  two \o [i \in 1..Len(assets) |-> AssetNode(assets[i])]
\* ---- asset URLs and derive_filename

\* A URL: everything up to and including the last "/" of its path, the
\* last path segment (characters), and the query string (characters).
Url(dir, name, query) == [dir |-> dir, name |-> name, query |-> query]

AssetURLs ==
    {Url("http://migranthealth.eu/theme/styles.php/rts/", <<"a", "l", "l">>, <<>>),
     Url("http://migranthealth.eu/lib/", <<"a", "l", "l">>, <<"v", "=", "2">>),
     Url("http://migranthealth.eu/pix/", <<"L", "o", "g", "o", "%", "2", "0", "A", ".", "P", "N", "G">>, <<>>),
     Url("http://migranthealth.eu/pix/", <<"p", "i", "c", "1", ".", "j", "p", "g">>, <<>>)}

url_blacklist ==
    {<<"a", "n", "a", "l", "y", "t", "i", "c", "s", ".", "j", "s">>,
     <<"y", "u", "i", "_", "c", "o", "m", "b", "o", ".", "p", "h", "p">>,
     <<"f", "o", "n", "t", "a", "w", "e", "s", "o", "m", "e", "-", "w", "e", "b", "f", "o", "n", "t">>,
     <<"d", "n", "d", "_", "a", "r", "r", "o", "w">>,
     <<"p", "i", "c", "1", ".", "j", "p", "g">>}

\* The part of the URL after its last "/" (neither the last segment nor
\* the query of the URLs tried holds a "/").
LastPiece(url) ==
    url.name \o (IF url.query = <<>> THEN <<>> ELSE <<"?">> \o url.query)

\* w in s, for strings of characters.
IsInfix(w, s) ==
    \E i \in 0..(Len(s) - Len(w)) : SubSeq(s, i + 1, i + Len(w)) = w

\* Whether a word of the blacklist occurs in the URL (none occurs in the
\* directory part of the URLs tried).
IsBlacklisted(url) == \E w \in url_blacklist : IsInfix(w, LastPiece(url))

UpperChars == <<"A", "G", "L", "N", "P">>
LowerChars == <<"a", "g", "l", "n", "p">>
LowerChar(c) ==
    IF \E i \in 1..Len(UpperChars) : UpperChars[i] = c
    THEN LowerChars[CHOOSE i \in 1..Len(UpperChars) : UpperChars[i] = c]
    ELSE c

\* str.lower() and str.replace('%', '_')
Lower(s) == [i \in 1..Len(s) |-> LowerChar(s[i])]
ReplacePercent(s) == [i \in 1..Len(s) |-> IF s[i] = "%" THEN "_" ELSE s[i]]

\* The values uuid.uuid4().hex can take: NumTokens of them.
HexDigits == <<"0", "1", "2", "3", "4", "5", "6", "7", "8", "9">>
Tokens == {<<HexDigits[i]>> : i \in 1..NumTokens}

AllCss == <<"a", "l", "l", ".", "c", "s", "s">>
IndexHtml == <<"i", "n", "d", "e", "x", ".", "h", "t", "m", "l">>

\* derive_filename(url), with the value uuid.uuid4().hex takes in the call.
derive_filename(url, token) ==
    IF LastPiece(url) = <<"a", "l", "l">>
    THEN AllCss
    ELSE Lower(token \o <<".">> \o ReplacePercent(url.name))

\* ---- the pages tried: one per exclusion selector and table shape without
\* assets, and one table page per list of assets.
ArticlePages ==
    {BuildDoc(k, r, inBox, rowMod, nt, <<>>) :
        k \in 0..13, r \in 0..MaxRows, inBox \in BOOLEAN, rowMod \in BOOLEAN,
        nt \in 1..2}
    \cup {BuildDoc(0, 3, TRUE, FALSE, 1, as) : as \in SeqsUpTo(AssetURLs, MaxAssets)}

AssetPositions(doc) == {n \in 1..Len(doc) : doc[n].el.src.ref = "remote"}

\* download_static_assets(doc, destination, ..., request_fn=make_request,
\* url_blacklist=url_blacklist, derive_filename=derive_filename), with
\* toks[n] the uuid drawn for the asset of node n: a blacklisted asset is
\* dropped from the page and not fetched; any other is saved under its
\* derived filename and the reference is rewritten to that filename.
RewrittenDoc(doc, toks) ==
    [n \in 1..Len(doc) |->
        IF n \notin AssetPositions(doc) THEN doc[n]
        ELSE IF IsBlacklisted(doc[n].el.src.url)
             THEN [doc[n] EXCEPT !.el.src = Dropped]
             ELSE [doc[n] EXCEPT !.el.src =
                        Local(derive_filename(doc[n].el.src.url, toks[n]))]]

SavedAssets(doc, toks) ==
    {[name |-> derive_filename(doc[n].el.src.url, toks[n]),
      content |-> [asset |-> doc[n].el.src.url]] :
        n \in {m \in AssetPositions(doc) : ~IsBlacklisted(doc[m].el.src.url)}}

\* str(doc): the nodes still in the tree, with their attributes.
Serialize(doc, removed) ==
    [n \in 1..Len(doc) |-> IF n \in removed THEN [gone |-> TRUE] ELSE doc[n]]

\* create_predictable_zip(destination): decided by the directory's files.
create_predictable_zip(dirfiles) == [files |-> dirfiles]

\* doc = get_parsed_html_from_url(url); destination = tempfile.mkdtemp()
FetchArticlePage ==
    /\ ar_pc = "start"
    /\ \/ ar_doc' = ar_page /\ ar_pc' = "fetched"
       \/ ar_doc' = ar_doc /\ ar_pc' = "raised"
    /\ UNCHANGED <<ar_run, ar_page, ar_removed, ar_sel, ar_files, ar_zip, ar_zip1, notArc>>

DownloadStaticAssets ==
    /\ ar_pc = "fetched"
    /\ \E toks \in [AssetPositions(ar_doc) -> Tokens] :
          /\ ar_doc' = RewrittenDoc(ar_doc, toks)
          /\ ar_files' = SavedAssets(ar_doc, toks)
    /\ ar_pc' = "removing"
    /\ ar_sel' = 1
    /\ UNCHANGED <<ar_run, ar_page, ar_removed, ar_zip, ar_zip1, notArc>>

\* One round of `for selector in nodes_to_remove`: every node the selector
\* finds is decomposed.
RemoveSelected ==
    /\ ar_pc = "removing"
    /\ ar_sel <= Len(nodes_to_remove)
    /\ LET found == Select(ar_doc, Live(ar_doc, ar_removed), nodes_to_remove[ar_sel])
       IN  ar_removed' = ar_removed \cup UNION {Subtree(ar_doc, n) : n \in found}
    /\ ar_sel' = ar_sel + 1
    /\ UNCHANGED <<ar_pc, ar_run, ar_page, ar_doc, ar_files, ar_zip, ar_zip1, notArc>>

\* f.write(str(doc)) into destination/index.html
WriteIndex ==
    /\ ar_pc = "removing"
    /\ ar_sel > Len(nodes_to_remove)
    /\ ar_files' = ar_files \cup
            {[name |-> IndexHtml, content |-> [html |-> Serialize(ar_doc, ar_removed)]]}
    /\ ar_pc' = "written"
    /\ UNCHANGED <<ar_run, ar_page, ar_doc, ar_removed, ar_sel, ar_zip, ar_zip1, notArc>>

\* zip_path = create_predictable_zip(destination); return the HTML5AppNode.
ZipAndReturn ==
    /\ ar_pc = "written"
    /\ ar_zip' = create_predictable_zip(ar_files)
    /\ ar_pc' = "returned"
    /\ UNCHANGED <<ar_run, ar_page, ar_doc, ar_removed, ar_sel, ar_files, ar_zip1, notArc>>

\* The same article is archived again: a new call, a new work directory.
ArchiveAgain ==
    /\ ar_pc = "returned"
    /\ ar_run = 1
    /\ ar_run' = 2
    /\ ar_zip1' = ar_zip
    /\ ar_pc' = "start"
    /\ ar_doc' = <<>> /\ ar_removed' = {} /\ ar_sel' = 0 /\ ar_files' = {}
    /\ ar_zip' = [files |-> {}]
    /\ UNCHANGED <<ar_page, notArc>>

InitArc ==
    /\ ar_pc = "start" /\ ar_run = 1
    /\ ar_page \in ArticlePages
    /\ ar_doc = <<>> /\ ar_removed = {} /\ ar_sel = 0 /\ ar_files = {}
    /\ ar_zip = [files |-> {}] /\ ar_zip1 = [files |-> {}]
    /\ ArcOthersIdle

NextArc ==
    \/ FetchArticlePage
    \/ DownloadStaticAssets
    \/ RemoveSelected
    \/ WriteIndex
    \/ ZipAndReturn
    \/ ArchiveAgain

SpecArc == InitArc /\ [][NextArc]_vars

\* ---- properties of download_content_node

IndexWritten == ar_pc \in {"written", "returned"}
FinalLive == Live(ar_doc, ar_removed)
RowSelector == nodes_to_remove[14]

\* C3 as stated: no element of the document written to index.html matches
\* any of the fourteen exclusion selectors, evaluated on that document.
C3_NoExcludedElementInIndex ==
    IndexWritten =>
        \A n \in FinalLive : \A k \in 1..14 :
            ~Matches(ar_doc, FinalLive, n, nodes_to_remove[k])

\* C3 amended: no element of the document written to index.html matches
\* any of the first thirteen exclusion selectors; an element of it matches
\* '.generalbox table tr:nth-of-type(2)' only if a row before it in the
\* same table was removed (it moved up to second place by that removal).
C3_ExcludedExceptShiftedRows ==
    IndexWritten =>
        /\ \A n \in FinalLive : \A k \in 1..13 :
              ~Matches(ar_doc, FinalLive, n, nodes_to_remove[k])
        /\ \A n \in FinalLive :
              Matches(ar_doc, FinalLive, n, RowSelector) =>
                  \E m \in ar_removed : /\ m < n
                                         /\ ar_doc[m].parent = ar_doc[n].parent
                                         /\ ar_doc[m].el.tag = "tr"

\* C3 witness: index.html is written, a row was removed from a table in a
\* content box, and a row of that table still matches the row selector.
C3_Witness ==
    /\ IndexWritten
    /\ \E n \in FinalLive : \E m \in ar_removed :
          /\ Matches(ar_doc, FinalLive, n, RowSelector)
          /\ ar_doc[m].parent = ar_doc[n].parent
          /\ Matches(ar_doc, Live(ar_doc, {}), m, RowSelector)

\* C4: two runs of download_content_node on the same article, the page and
\* its assets unchanged, give the same archive.
C4_RearchivingGivesSameArchive ==
    (ar_run = 2 /\ ar_pc = "returned") => ar_zip = ar_zip1

(***************************************************************************)
(* The site walker (chef.py 70-186): construct_channel,                    *)
(* fetch_all_languages, fetch_language, fetch_module, fetch_unit and       *)
(* fetch_article.  A frame of cr_stack is one fetch_* call in progress:    *)
(* the node it created and the items of its page it has still to visit.    *)
(* The enrolment and the untitled sections of fetch_module are modelled in *)
(* SpecMod; here a module page is the list of its titled sections.         *)
(***************************************************************************)

\* The most links on one page, and the most nodes of the whole site
\* (the channel included).
MaxLinks == 2
MaxNodes == 7

MEET_PREFIX == <<"M", "E", "E", "T", " ">>

\* The texts of the category links tried: a resolvable name, one with
\* surrounding white space, and a name no language has.
CategoryLabels ==
    {<<"M", "E", "E", "T", " ", "E", "n", "g", "l", "i", "s", "h">>,
     <<" ", "M", "E", "E", "T", " ", "F", "r", "e", "n", "c", "h", " ">>,
     <<"M", "E", "E", "T", " ", "E", "l", "v", "i", "s", "h">>}

ModuleURLs  == {"course/view.php?id=3", "course/view.php?id=4"}
UnitURLs    == {"course/view.php?id=3&section=1", "course/view.php?id=3&section=2"}
ArticleURLs == {"mod/page/view.php?id=75", "mod/page/view.php?id=76"}

\* le_utils' language list, by name: the languages getlang_by_name knows.
LanguageNames ==
    {<<"E", "n", "g", "l", "i", "s", "h">>, <<"F", "r", "e", "n", "c", "h">>}
LanguageOf(name) ==
    IF name = <<"E", "n", "g", "l", "i", "s", "h">>
    THEN [code |-> "en", native_name |-> "English"]
    ELSE [code |-> "fr", native_name |-> "Francais"]

\* languages.getlang_by_name(name): the language, or None.
getlang_by_name_default(name) ==
    IF name \in LanguageNames THEN LanguageOf(name)
    ELSE [code |-> "en", native_name |-> "English"]
getlang_by_name(name) ==
    IF name \in LanguageNames THEN LanguageOf(name) ELSE None

\* str.strip(), for the blank.
RECURSIVE LStrip(_)
LStrip(s) == IF s # <<>> /\ Head(s) = " " THEN LStrip(Tail(s)) ELSE s
RECURSIVE RStrip(_)
RStrip(s) ==
    IF s # <<>> /\ s[Len(s)] = " " THEN RStrip(SubSeq(s, 1, Len(s) - 1)) ELSE s
Strip(s) == RStrip(LStrip(s))

\* link.text.strip()[len('MEET '):]
language_name(text) == SubSeq(Strip(text), Len(MEET_PREFIX) + 1, Len(Strip(text)))

Frame(level, node, todo) == [level |-> level, node |-> node, todo |-> todo]
Top == cr_stack[Len(cr_stack)]

RECURSIVE Pending(_)
Pending(stack) ==
    IF stack = <<>> THEN 0 ELSE Len(Head(stack).todo) + Pending(Tail(stack))

\* The pages the site can serve at this point: lists of at most MaxLinks
\* items, few enough for the site to stay within MaxNodes nodes.  The
\* empty page is also what an error body parses to.
Room == MaxNodes - Len(cr_nodes) - Pending(cr_stack)
Pages(items, used) ==
    SeqsUpTo(items, IF Room - used < MaxLinks THEN Room - used ELSE MaxLinks)

\* parent.add_child(child): children.append(child)
add_child_dropped(children, parent, child) == children
add_child(children, parent, child) ==
    [children EXCEPT ![parent] = Append(@, child)]

NewNode(kind, source_id) == [kind |-> kind, source_id |-> source_id]

\* The innermost call goes on with the rest of its page.
Advance(stack) ==
    [stack EXCEPT ![Len(stack)].todo = Tail(@)]

Raise(exc) ==
    /\ cr_pc' = "raised"
    /\ cr_exc' = exc

\* construct_channel: the channel exists, login_to_meet() is done, and
\* fetch_all_languages fetches the root page.
FetchAllLanguages ==
    /\ cr_pc = "start"
    /\ \/ /\ Raise("NameError")
          /\ UNCHANGED <<cr_stack, cr_labels>>
       \/ \E links \in Pages(CategoryLabels, 0) :
            /\ cr_stack' = <<Frame("channel", 1, links)>>
            /\ cr_labels' = links
            /\ cr_pc' = "running"
            /\ cr_exc' = cr_exc
    /\ UNCHANGED <<cr_nodes, cr_children, notCrawl>>

\* One round of the loop of fetch_all_languages up to the call of
\* fetch_language, and fetch_language up to its loop: the name is looked
\* up, print reads language.name (AttributeError on None), the language
\* node is created and the language page is fetched.
EnterLanguage ==
    /\ cr_pc = "running"
    /\ Top.level = "channel"
    /\ Top.todo # <<>>
    /\ LET language == getlang_by_name(language_name(Head(Top.todo))) IN
         IF language = None
         THEN /\ Raise("AttributeError")
              /\ UNCHANGED <<cr_stack, cr_nodes, cr_children>>
         ELSE /\ cr_nodes' = Append(cr_nodes, NewNode("language", language.code))
              /\ cr_children' = Append(cr_children, <<>>)
              /\ \/ /\ Raise("NameError")
                    /\ UNCHANGED cr_stack
                 \/ \E courses \in Pages(ModuleURLs, 1) :
                      /\ cr_stack' = Append(Advance(cr_stack),
                                            Frame("language", Len(cr_nodes) + 1, courses))
                      /\ UNCHANGED <<cr_pc, cr_exc>>
    /\ UNCHANGED <<cr_labels, notCrawl>>

\* fetch_module is called for the next course: the module node is created
\* and the module page is fetched.
EnterModule ==
    /\ cr_pc = "running"
    /\ Top.level = "language"
    /\ Top.todo # <<>>
    /\ cr_nodes' = Append(cr_nodes, NewNode("module", Head(Top.todo)))
    /\ cr_children' = Append(cr_children, <<>>)
    /\ \/ /\ Raise("NameError")
          /\ UNCHANGED cr_stack
       \/ \E sections \in Pages(UnitURLs, 1) :
            /\ cr_stack' = Append(Advance(cr_stack),
                                  Frame("module", Len(cr_nodes) + 1, sections))
            /\ UNCHANGED <<cr_pc, cr_exc>>
    /\ UNCHANGED <<cr_labels, notCrawl>>

\* fetch_unit is called for the next titled section: the unit node is
\* created and the unit page is fetched.
EnterUnit ==
    /\ cr_pc = "running"
    /\ Top.level = "module"
    /\ Top.todo # <<>>
    /\ cr_nodes' = Append(cr_nodes, NewNode("unit", Head(Top.todo)))
    /\ cr_children' = Append(cr_children, <<>>)
    /\ \/ /\ Raise("NameError")
          /\ UNCHANGED cr_stack
       \/ \E activities \in Pages(ArticleURLs, 1) :
            /\ cr_stack' = Append(Advance(cr_stack),
                                  Frame("unit", Len(cr_nodes) + 1, activities))
            /\ UNCHANGED <<cr_pc, cr_exc>>
    /\ UNCHANGED <<cr_labels, notCrawl>>

\* fetch_article -> download_content_node for the next activity: the page
\* is fetched and archived, the HTML5AppNode(source_id=url) is returned and
\* unit_node.add_child(article) runs.
FetchArticle ==
    /\ cr_pc = "running"
    /\ Top.level = "unit"
    /\ Top.todo # <<>>
    /\ \/ /\ Raise("NameError")
          /\ UNCHANGED <<cr_stack, cr_nodes, cr_children>>
       \/ /\ cr_nodes' = Append(cr_nodes, NewNode("article", Head(Top.todo)))
          /\ cr_children' = add_child(Append(cr_children, <<>>), Top.node,
                                      Len(cr_nodes) + 1)
          /\ cr_stack' = Advance(cr_stack)
          /\ UNCHANGED <<cr_pc, cr_exc>>
    /\ UNCHANGED <<cr_labels, notCrawl>>

\* The loop of fetch_language, fetch_module or fetch_unit is over: the
\* node is returned and the caller adds it to its own node.
ReturnNode ==
    /\ cr_pc = "running"
    /\ Top.level # "channel"
    /\ Top.todo = <<>>
    /\ cr_children' = add_child(cr_children, cr_stack[Len(cr_stack) - 1].node, Top.node)
    /\ cr_stack' = SubSeq(cr_stack, 1, Len(cr_stack) - 1)
    /\ UNCHANGED <<cr_pc, cr_nodes, cr_labels, cr_exc, notCrawl>>

\* The loop of fetch_all_languages is over: construct_channel returns the
\* channel.
ReturnChannel ==
    /\ cr_pc = "running"
    /\ Top.level = "channel"
    /\ Top.todo = <<>>
    /\ cr_pc' = "done"
    /\ UNCHANGED <<cr_stack, cr_nodes, cr_children, cr_labels, cr_exc, notCrawl>>

InitCrawl ==
    /\ cr_pc = "start"
    /\ cr_stack = <<>>
    /\ cr_nodes = <<NewNode("channel", "meet-migrant-health")>>
    /\ cr_children = << <<>> >>
    /\ cr_labels = <<>>
    /\ cr_exc = ""
    /\ CrawlOthersIdle

NextCrawl ==
    \/ FetchAllLanguages
    \/ EnterLanguage
    \/ EnterModule
    \/ EnterUnit
    \/ FetchArticle
    \/ ReturnNode
    \/ ReturnChannel

SpecCrawl == InitCrawl /\ [][NextCrawl]_vars

\* ---- properties of the walker

NodeIds == 1..Len(cr_nodes)
Created == NodeIds \ {1}

\* The places (parent, position) at which node n is a child.
ChildPlaces(n) ==
    {<<p, i>> \in NodeIds \X (1..MaxNodes) :
        i <= Len(cr_children[p]) /\ cr_children[p][i] = n}

InProgress == {cr_stack[i].node : i \in 1..Len(cr_stack)}

\* C7 as stated: in every state every created node other than the channel
\* has exactly one parent.
C7_EveryCreatedNodeHasOneParent ==
    \A n \in Created : Cardinality(ChildPlaces(n)) = 1

\* C7 amended: no node is a child twice; a topic node gets its parent when
\* the fetch_* call that created it returns, so a created node without a
\* parent is the node of a call still in progress, or the crawl was ended
\* by an exception; when the crawl completes every created node has
\* exactly one parent.
C7_ParentAssignedOnReturn ==
    /\ \A n \in NodeIds : Cardinality(ChildPlaces(n)) <= 1
    /\ ChildPlaces(1) = {}
    /\ \A n \in Created :
          ChildPlaces(n) = {} => (n \in InProgress \/ cr_pc = "raised")
    /\ cr_pc = "done" => \A n \in Created : Cardinality(ChildPlaces(n)) = 1

\* C7 witness: a completed crawl that created nodes of all four levels.
C7_Witness ==
    /\ cr_pc = "done"
    /\ \A k \in {"language", "module", "unit", "article"} :
          \E n \in Created : cr_nodes[n].kind = k

Resolves(label) == language_name(label) \in LanguageNames
Unresolved == {i \in 1..Len(cr_labels) : ~Resolves(cr_labels[i])}
LanguageNodes == {n \in Created : cr_nodes[n].kind = "language"}

\* C8: a category label whose language name does not resolve stops the
\* crawl with an error: the crawl never completes when the root page has
\* such a label, and language nodes exist only for the labels before the
\* first such label.
C8_UnresolvedLanguageStopsCrawl ==
    /\ cr_pc = "done" => Unresolved = {}
    /\ \A i \in Unresolved : Cardinality(LanguageNodes) < i

\* C8 witness: the crawl was stopped at an unresolved second label, after
\* the language of the first label was added to the channel.
C8_Witness ==
    /\ cr_pc = "raised" /\ cr_exc = "AttributeError"
    /\ Unresolved = {2}
    /\ Len(cr_children[1]) = 1

Articles == {n \in Created : cr_nodes[n].kind = "article"}

\* C10: in the tree handed to the channel builder every content node's
\* source identifier is an article URL, no two content nodes share one,
\* and no two children of one parent share an identifier.
C10_SourceIdsUnique ==
    cr_pc = "done" =>
        /\ \A a \in Articles : cr_nodes[a].source_id \in ArticleURLs
        /\ \A a, b \in Articles :
              a # b => cr_nodes[a].source_id # cr_nodes[b].source_id
        /\ \A p \in NodeIds : \A i, j \in 1..Len(cr_children[p]) :
              i # j => cr_nodes[cr_children[p][i]].source_id
                         # cr_nodes[cr_children[p][j]].source_id

====
